---- MODULE Spec2Model ----
(***************************************************************************)
(* One run of scripts/build_noto_ttf_subset.py: main() from the parsed     *)
(* command line to the process's terminal state.                           *)
(*                                                                         *)
(* The two external collaborators (the fontTools subsetter and the         *)
(* FontForge subprocess) are modelled by what the script can observe of    *)
(* them: a call either raises or returns, and the file it leaves behind    *)
(* is any font file at all.  The local filesystem calls (os.path.isfile,   *)
(* os.makedirs, tempfile.mkdtemp, shutil.copyfile, shutil.rmtree) are      *)
(* taken to do what their documentation says.                              *)
(***************************************************************************)
EXTENDS Integers, Sequences, FiniteSets, TLC

VARIABLES
    args,            \* argparse namespace (line 97), never assigned again
    in_kind,         \* what is at args.in_font: "file", "dir" or "missing"
    pc,              \* position of main()
    fs,              \* contents of the four paths the run touches
    outdir_created,  \* os.makedirs of the output directory has run
    tmp_created,     \* tempfile.mkdtemp has run
    tmp_exists,      \* the temporary directory is on disk
    subset_calls,    \* argument lists handed to run_pyftsubset, in order
    which_calls,     \* number of shutil.which("fontforge") lookups
    ff,              \* what shutil.which returned: "unset", None or a path
    returncode,      \* exit status of the FontForge subprocess, -1 before
    ff_launches,     \* number of subprocess.run launches
    checks,          \* results of check_ttf_tables, in order
    out_writes,      \* number of writes to out_path
    stderr,          \* diagnostics printed to standard error, in order
    trace,           \* pipeline steps executed, in order
    pending,         \* SystemExit / exception travelling through finally
    status           \* how the process ended

vars == <<args, in_kind, pc, fs, outdir_created, tmp_created, tmp_exists,
          subset_calls, which_calls, ff, returncode, ff_launches, checks,
          out_writes, stderr, trace, pending, status>>

-----------------------------------------------------------------------------
(* Bounds and input domains                                                *)

MaxGlyphs == 1

None == "<None>"

PRESETS ==
    [k \in {"sc-min", "tc-min", "sc-bmp", "tc-bmp"} |->
        IF k \in {"sc-min", "tc-min"}
        THEN "U+0020-007E,U+00A0-00FF,U+2000-206F,U+3000-303F,U+FF00-FFEF,U+4E00-9FFF"
        ELSE "U+0020-007E,U+00A0-00FF,U+2000-206F,U+3000-303F,U+FF00-FFEF,U+4E00-9FFF,U+3400-4DBF"]

\* Values each command-line option takes in the model.  A string option can
\* be absent (None), given empty, or given non-empty.
ExtChoices      == {".otf", ".OTF", ".ttf"}
PresetChoices   == {None, "sc-bmp"}
UnicodesChoices == {None, "", "U+0041-0042"}
TextFileChoices == {None, "", "mychars.txt"}
MinGlyphsChoices == {-2, MaxGlyphs}

Paths == {"in_path", "out_path", "subset_otf", "ttf_intermediate"}
TmpPaths == {"subset_otf", "ttf_intermediate"}

\* A file is its bytes; the fields are what TTFont reads out of them.
Absent ==
    [exists |-> FALSE, parse |-> FALSE, glyf |-> FALSE, loca |-> FALSE,
     maxp |-> FALSE, numGlyphs |-> 0]

Unparsable ==
    [exists |-> TRUE, parse |-> FALSE, glyf |-> FALSE, loca |-> FALSE,
     maxp |-> FALSE, numGlyphs |-> 0]

Fonts ==
    {Unparsable}
    \cup {[exists |-> TRUE, parse |-> TRUE, glyf |-> g, loca |-> l,
           maxp |-> FALSE, numGlyphs |-> 0] : g \in BOOLEAN, l \in BOOLEAN}
    \cup {[exists |-> TRUE, parse |-> TRUE, glyf |-> x[1], loca |-> x[2],
           maxp |-> TRUE, numGlyphs |-> x[3]] :
              x \in BOOLEAN \X BOOLEAN \X (0..MaxGlyphs)}

\* A file a previous run may have left at out_path.
StaleOut ==
    [exists |-> TRUE, parse |-> TRUE, glyf |-> TRUE, loca |-> TRUE,
     maxp |-> TRUE, numGlyphs |-> MaxGlyphs]

\* The pre-subset OTF is never opened by the script, only handed to FontForge.
SubsetOTF ==
    [exists |-> TRUE, parse |-> TRUE, glyf |-> FALSE, loca |-> FALSE,
     maxp |-> TRUE, numGlyphs |-> MaxGlyphs]

-----------------------------------------------------------------------------
(* Helpers                                                                 *)

\* Python truthiness of an optional string: None and "" are false.
Truthy(s) == s /= None /\ s /= ""

\* a or b
Or(a, b) == IF Truthy(a) THEN a ELSE b

\* str.lower() on the extensions of the model
Lower(e) == IF e = ".OTF" THEN ".otf" ELSE e

Running == [kind |-> "none", code |-> -1, exc |-> "none"]
SysExit(n) == [kind |-> "exit", code |-> n, exc |-> "none"]
Raised(e) == [kind |-> "exception", code |-> -1, exc |-> e]

\* Fault: `has_glyf or has_loca` for the overall validity.
check_ttf_tables_either(path) ==
    LET f == fs[path] IN
    IF ~f.exists \/ ~f.parse
    THEN [ok |-> FALSE, has_glyf |-> FALSE, has_loca |-> FALSE, num_glyphs |-> -1]
    ELSE [ok |-> f.glyf \/ f.loca, has_glyf |-> f.glyf, has_loca |-> f.loca,
          num_glyphs |-> IF f.maxp THEN f.numGlyphs ELSE -1]

\* check_ttf_tables(path), lines 69-78
check_ttf_tables(path) ==
    LET f == fs[path] IN
    IF ~f.exists \/ ~f.parse
    THEN [ok |-> FALSE, has_glyf |-> FALSE, has_loca |-> FALSE, num_glyphs |-> -1]
    ELSE [ok |-> f.glyf /\ f.loca, has_glyf |-> f.glyf, has_loca |-> f.loca,
          num_glyphs |-> IF f.maxp THEN f.numGlyphs ELSE -1]

-----------------------------------------------------------------------------
Init ==
    /\ args \in [in_ext : ExtChoices, preset : PresetChoices,
                 unicodes : UnicodesChoices, text_file : TextFileChoices,
                 no_second_subset : BOOLEAN, min_glyphs : MinGlyphsChoices]
    /\ in_kind \in {"file", "dir", "missing"}
    /\ \E f \in Fonts, o \in {Absent, StaleOut} :
          fs = [p \in Paths |->
                   IF p = "in_path" /\ in_kind = "file" THEN f
                   ELSE IF p = "out_path" THEN o
                   ELSE Absent]
    /\ pc = "start"
    /\ outdir_created = FALSE
    /\ tmp_created = FALSE
    /\ tmp_exists = FALSE
    /\ subset_calls = <<>>
    /\ which_calls = 0
    /\ ff = "unset"
    /\ returncode = -1
    /\ ff_launches = 0
    /\ checks = <<>>
    /\ out_writes = 0
    /\ stderr = <<>>
    /\ trace = <<>>
    /\ pending = Running
    /\ status = Running

-----------------------------------------------------------------------------
(* Argument lists of the five subsetting calls                             *)

OtfFlags == {"--layout-features=*", "--no-hinting", "--desubroutinize"}

TtfFlags == {"--layout-features=*", "--no-hinting", "--glyph-names",
             "--retain-gids=no", "--passthrough-tables"}

SubsetArgs(font, output_file, flags, opt, val) ==
    [font |-> font, output_file |-> output_file, flags |-> flags,
     opt |-> opt, val |-> val]

\* Stage A, lines 114-138
StageAArgs ==
    IF Truthy(args.text_file)
    THEN SubsetArgs("in_path", "subset_otf", OtfFlags,
                    "--text-file=", args.text_file)
    ELSE LET u == IF Truthy(args.unicodes)
                  THEN args.unicodes
                  ELSE PRESETS[Or(args.preset, "sc-min")]
         IN  SubsetArgs("in_path", "subset_otf", OtfFlags, "--unicodes=", u)

\* Fault: Stage C looks at --unicodes before --text-file.
StageCArgs_unicodes_first ==
    IF Truthy(args.unicodes)
    THEN SubsetArgs("ttf_intermediate", "out_path", TtfFlags,
                    "--unicodes=", args.unicodes)
    ELSE IF Truthy(args.text_file)
    THEN SubsetArgs("ttf_intermediate", "out_path", TtfFlags,
                    "--text-file=", args.text_file)
    ELSE SubsetArgs("ttf_intermediate", "out_path", TtfFlags,
                    "--unicodes=", PRESETS[Or(args.preset, "sc-min")])

\* Stage C, lines 155-179
StageCArgs ==
    IF Truthy(args.text_file)
    THEN SubsetArgs("ttf_intermediate", "out_path", TtfFlags,
                    "--text-file=", args.text_file)
    ELSE LET u2 == Or(args.unicodes, PRESETS[Or(args.preset, "sc-min")])
         IN  SubsetArgs("ttf_intermediate", "out_path", TtfFlags,
                        "--unicodes=", u2)

\* Direct TTF subset, lines 185-209
DirectArgs ==
    IF Truthy(args.text_file)
    THEN SubsetArgs("in_path", "out_path", TtfFlags,
                    "--text-file=", args.text_file)
    ELSE LET u == Or(args.unicodes, PRESETS[Or(args.preset, "sc-min")])
         IN  SubsetArgs("in_path", "out_path", TtfFlags, "--unicodes=", u)

-----------------------------------------------------------------------------
(* Calls                                                                   *)

WritesOut(path) == IF path = "out_path" THEN 1 ELSE 0

\* run_pyftsubset(args_list), lines 41-43: the library either saves a font at
\* --output-file and returns, or raises.  `outs` is what it can save there.
run_pyftsubset(args_list, outs, next) ==
    /\ subset_calls' = Append(subset_calls, args_list)
    /\ \/ /\ \E f \in outs : fs' = [fs EXCEPT ![args_list.output_file] = f]
          /\ out_writes' = out_writes + WritesOut(args_list.output_file)
          /\ pc' = next
          /\ pending' = pending
       \/ /\ fs' = fs
          /\ out_writes' = out_writes
          /\ pc' = "finally"
          /\ pending' = Raised("SubsetError")

\* shutil.copyfile(src, dst)
copyfile(src, dst) ==
    /\ fs' = [fs EXCEPT ![dst] = fs[src]]
    /\ out_writes' = out_writes + WritesOut(dst)

\* Fault: the `if not ff: raise` guard is missing, so the subprocess is
\* launched with whatever shutil.which returned.
ff_convert_unguarded(otf_path, ttf_path) ==
    /\ which_calls' = which_calls + 1
    /\ ff_launches' = ff_launches + 1
    /\ \/ /\ ff' = None
          /\ returncode' = returncode
          /\ fs' = fs
          /\ pc' = "finally"
          /\ pending' = Raised("TypeError")
       \/ /\ ff' = "/usr/bin/fontforge"
          /\ returncode' = 1
          /\ \E f \in {Absent, Unparsable} : fs' = [fs EXCEPT ![ttf_path] = f]
          /\ pc' = "finally"
          /\ pending' = Raised("CalledProcessError")
       \/ /\ ff' = "/usr/bin/fontforge"
          /\ returncode' = 0
          /\ \E f \in Fonts \cup {Absent} : fs' = [fs EXCEPT ![ttf_path] = f]
          /\ pc' = "checkI"
          /\ pending' = pending

\* ff_convert_otf_to_ttf(otf_path, ttf_path), lines 45-67
ff_convert_otf_to_ttf(otf_path, ttf_path) ==
    /\ which_calls' = which_calls + 1
    /\ \/ \* shutil.which found nothing: raise RuntimeError
          /\ ff' = None
          /\ returncode' = returncode
          /\ ff_launches' = ff_launches
          /\ fs' = fs
          /\ pc' = "finally"
          /\ pending' = Raised("RuntimeError")
       \/ \* subprocess.run(cmd, check=True), non-zero exit
          /\ ff' = "/usr/bin/fontforge"
          /\ returncode' = 1
          /\ ff_launches' = ff_launches + 1
          /\ \E f \in {Absent, Unparsable} : fs' = [fs EXCEPT ![ttf_path] = f]
          /\ pc' = "finally"
          /\ pending' = Raised("CalledProcessError")
       \/ \* exit status 0; f.generate left whatever it left
          /\ ff' = "/usr/bin/fontforge"
          /\ returncode' = 0
          /\ ff_launches' = ff_launches + 1
          /\ \E f \in Fonts \cup {Absent} : fs' = [fs EXCEPT ![ttf_path] = f]
          /\ pc' = "checkI"
          /\ pending' = pending

-----------------------------------------------------------------------------
(* Steps of main()                                                         *)

\* Fault: os.path.exists in place of os.path.isfile.
CheckInput_exists ==
    /\ pc = "start"
    /\ IF in_kind = "missing"
       THEN /\ stderr' = Append(stderr, "input not found")
            /\ status' = SysExit(1)
            /\ pc' = "done"
       ELSE /\ pc' = "setup"
            /\ UNCHANGED <<stderr, status>>
    /\ UNCHANGED <<args, in_kind, fs, outdir_created, tmp_created, tmp_exists,
                   subset_calls, which_calls, ff, returncode, ff_launches,
                   checks, out_writes, trace, pending>>

\* lines 101-103
CheckInput ==
    /\ pc = "start"
    /\ IF in_kind /= "file"
       THEN /\ stderr' = Append(stderr, "input not found")
            /\ status' = SysExit(1)
            /\ pc' = "done"
       ELSE /\ pc' = "setup"
            /\ UNCHANGED <<stderr, status>>
    /\ UNCHANGED <<args, in_kind, fs, outdir_created, tmp_created, tmp_exists,
                   subset_calls, which_calls, ff, returncode,
                   ff_launches, checks, out_writes,
                   trace, pending>>

\* Fault: the extension is compared without .lower().
Setup_case_sensitive ==
    /\ pc = "setup"
    /\ outdir_created' = TRUE
    /\ tmp_created' = TRUE
    /\ tmp_exists' = TRUE
    /\ LET ext == args.in_ext
       IN  pc' = IF ext = ".otf" THEN "stageA" ELSE "direct"
    /\ UNCHANGED <<args, in_kind, fs, subset_calls, which_calls, ff, returncode,
                   ff_launches, checks, out_writes, stderr, trace, pending,
                   status>>

\* lines 105-111
Setup ==
    /\ pc = "setup"
    /\ outdir_created' = TRUE
    /\ tmp_created' = TRUE
    /\ tmp_exists' = TRUE
    /\ LET ext == Lower(args.in_ext)
       IN  pc' = IF ext = ".otf" THEN "stageA" ELSE "direct"
    /\ UNCHANGED <<args, in_kind, fs, subset_calls, which_calls, ff, returncode,
                   ff_launches,
                   checks, out_writes, stderr, trace, pending, status>>

\* Stage A, lines 112-138
StageA ==
    /\ pc = "stageA"
    /\ trace' = Append(trace, "A")
    /\ run_pyftsubset(StageAArgs, {SubsetOTF}, "stageB")
    /\ UNCHANGED <<args, in_kind, outdir_created, tmp_created, tmp_exists,
                   which_calls, ff, returncode,
                   ff_launches, checks, stderr, status>>

\* Stage B, lines 140-143
StageB ==
    /\ pc = "stageB"
    /\ trace' = Append(trace, "B")
    /\ ff_convert_otf_to_ttf("subset_otf", "ttf_intermediate")
    /\ UNCHANGED <<args, in_kind, outdir_created, tmp_created, tmp_exists,
                   subset_calls, checks, out_writes, stderr, status>>

\* Fault: sys.exit(3) after the intermediate check.
CheckIntermediate_exit3 ==
    /\ pc = "checkI"
    /\ trace' = Append(trace, "VI")
    /\ LET r == check_ttf_tables("ttf_intermediate") IN
       /\ checks' = Append(checks, [path |-> "ttf_intermediate", result |-> r])
       /\ IF ~r.ok \/ r.num_glyphs < args.min_glyphs
          THEN /\ stderr' = Append(stderr, "converted TTF invalid")
               /\ pending' = SysExit(3)
               /\ pc' = "finally"
          ELSE /\ pc' = "stageC"
               /\ UNCHANGED <<stderr, pending>>
    /\ UNCHANGED <<args, in_kind, fs, outdir_created, tmp_created, tmp_exists,
                   subset_calls, which_calls, ff, returncode, ff_launches,
                   out_writes, status>>

\* lines 145-148
CheckIntermediate ==
    /\ pc = "checkI"
    /\ trace' = Append(trace, "VI")
    /\ LET r == check_ttf_tables("ttf_intermediate") IN
       /\ checks' = Append(checks, [path |-> "ttf_intermediate", result |-> r])
       /\ IF ~r.ok \/ r.num_glyphs < args.min_glyphs
          THEN /\ stderr' = Append(stderr, "converted TTF invalid")
               /\ pending' = SysExit(2)
               /\ pc' = "finally"
          ELSE /\ pc' = "stageC"
               /\ UNCHANGED <<stderr, pending>>
    /\ UNCHANGED <<args, in_kind, fs, outdir_created, tmp_created, tmp_exists,
                   subset_calls, which_calls, ff, returncode,
                   ff_launches, out_writes, status>>

\* Fault: --no-second-subset is ignored.
StageC_always_subset ==
    /\ pc = "stageC"
    /\ trace' = Append(trace, "C-subset")
    /\ run_pyftsubset(StageCArgs, Fonts, "final")
    /\ UNCHANGED <<args, in_kind, outdir_created, tmp_created, tmp_exists,
                   which_calls, ff, returncode, ff_launches, checks, stderr,
                   status>>

\* Stage C, lines 150-179
StageC ==
    /\ pc = "stageC"
    /\ IF args.no_second_subset
       THEN /\ trace' = Append(trace, "C-copy")
            /\ copyfile("ttf_intermediate", "out_path")
            /\ pc' = "final"
            /\ UNCHANGED <<subset_calls, pending>>
       ELSE /\ trace' = Append(trace, "C-subset")
            /\ run_pyftsubset(StageCArgs, Fonts, "final")
    /\ UNCHANGED <<args, in_kind, outdir_created, tmp_created, tmp_exists,
                   which_calls, ff, returncode,
                   ff_launches, checks, stderr, status>>

\* Fault: the TTF branch subsets even when no selection flag is given.
Direct_always_subset ==
    /\ pc = "direct"
    /\ trace' = Append(trace, "T-subset")
    /\ run_pyftsubset(DirectArgs, Fonts, "final")
    /\ UNCHANGED <<args, in_kind, outdir_created, tmp_created, tmp_exists,
                   which_calls, ff, returncode, ff_launches, checks, stderr,
                   status>>

\* Input is already TTF, lines 181-212
Direct ==
    /\ pc = "direct"
    /\ IF Truthy(args.text_file) \/ Truthy(args.unicodes) \/ Truthy(args.preset)
       THEN /\ trace' = Append(trace, "T-subset")
            /\ run_pyftsubset(DirectArgs, Fonts, "final")
       ELSE /\ trace' = Append(trace, "T-copy")
            /\ copyfile("in_path", "out_path")
            /\ pc' = "final"
            /\ UNCHANGED <<subset_calls, pending>>
    /\ UNCHANGED <<args, in_kind, outdir_created, tmp_created, tmp_exists,
                   which_calls, ff, returncode,
                   ff_launches, checks, stderr, status>>

\* Fault: a failed final verification removes the output it rejected.
FinalCheck_rollback ==
    /\ pc = "final"
    /\ trace' = Append(trace, "VF")
    /\ LET r == check_ttf_tables("out_path") IN
       /\ checks' = Append(checks, [path |-> "out_path", result |-> r])
       /\ IF ~r.ok \/ r.num_glyphs < args.min_glyphs
          THEN /\ stderr' = Append(stderr, "verification failed")
               /\ pending' = SysExit(3)
               /\ fs' = [fs EXCEPT !["out_path"] = Absent]
          ELSE /\ pending' = SysExit(0)
               /\ UNCHANGED <<stderr, fs>>
    /\ pc' = "finally"
    /\ UNCHANGED <<args, in_kind, outdir_created, tmp_created, tmp_exists,
                   subset_calls, which_calls, ff, returncode, ff_launches,
                   out_writes, status>>

\* Final verification, lines 214-228
FinalCheck ==
    /\ pc = "final"
    /\ trace' = Append(trace, "VF")
    /\ LET r == check_ttf_tables("out_path") IN
       /\ checks' = Append(checks, [path |-> "out_path", result |-> r])
       /\ IF ~r.ok \/ r.num_glyphs < args.min_glyphs
          THEN /\ stderr' = Append(stderr, "verification failed")
               /\ pending' = SysExit(3)
          ELSE /\ pending' = SysExit(0)
               /\ UNCHANGED stderr
    /\ pc' = "finally"
    /\ UNCHANGED <<args, in_kind, fs, outdir_created, tmp_created, tmp_exists,
                   subset_calls, which_calls, ff, returncode,
                   ff_launches, out_writes, status>>

\* Fault: the rmtree sits at the end of the try body, not in a finally block.
Finally_on_success_only ==
    /\ pc = "finally"
    /\ IF pending = SysExit(0)
       THEN /\ tmp_exists' = FALSE
            /\ fs' = [p \in Paths |-> IF p \in TmpPaths THEN Absent ELSE fs[p]]
       ELSE UNCHANGED <<tmp_exists, fs>>
    /\ stderr' = IF pending.kind = "exception"
                 THEN Append(stderr, "traceback")
                 ELSE stderr
    /\ status' = pending
    /\ pc' = "done"
    /\ UNCHANGED <<args, in_kind, outdir_created, tmp_created, subset_calls,
                   which_calls, ff, returncode, ff_launches, checks,
                   out_writes, trace, pending>>

\* finally: shutil.rmtree(tmpdir, ignore_errors=True), lines 230-231; then
\* the SystemExit or exception leaves main() and the interpreter ends.
Finally ==
    /\ pc = "finally"
    /\ tmp_exists' = FALSE
    /\ fs' = [p \in Paths |-> IF p \in TmpPaths THEN Absent ELSE fs[p]]
    /\ stderr' = IF pending.kind = "exception"
                 THEN Append(stderr, "traceback")
                 ELSE stderr
    /\ status' = pending
    /\ pc' = "done"
    /\ UNCHANGED <<args, in_kind, outdir_created, tmp_created, subset_calls,
                   which_calls, ff, returncode,
                   ff_launches, checks, out_writes, trace,
                   pending>>

Next ==
    \/ CheckInput
    \/ Setup
    \/ StageA
    \/ StageB
    \/ CheckIntermediate
    \/ StageC
    \/ Direct
    \/ FinalCheck
    \/ Finally

Spec == Init /\ [][Next]_vars

-----------------------------------------------------------------------------
(* Vocabulary of the properties                                            *)

Last(s) == s[Len(s)]

LastStep == IF trace = <<>> THEN "none" ELSE Last(trace)

\* The SystemExit or exception the run ends with, once it is raised.
Outcome == IF pc = "done" THEN status ELSE pending

IsOtfInput == args.in_ext \in {".otf", ".OTF"}

HasTables(f) == f.exists /\ f.parse /\ f.glyf /\ f.loca

\* numGlyphs as the verification reads it: -1 when there is no maxp table.
ReportedGlyphs(f) == IF f.exists /\ f.parse /\ f.maxp THEN f.numGlyphs ELSE -1

Acceptable(f) == HasTables(f) /\ ReportedGlyphs(f) >= args.min_glyphs

NoExternalWork ==
    /\ subset_calls = <<>>
    /\ which_calls = 0
    /\ ff_launches = 0

-----------------------------------------------------------------------------
(* C1: once the final verification has run, the run ends with status 0 if   *)
(* the file at out_path has glyf, loca and numGlyphs >= --min-glyphs, and   *)
(* with status 3 otherwise (an unparsable file included); status 0 is      *)
(* reached in no other way, on any of the three paths.                     *)
C1_ExitStatusReflectsFinalOutput ==
    LET out == fs["out_path"] IN
    /\ LastStep = "VF" =>
          Outcome = IF Acceptable(out) THEN SysExit(0) ELSE SysExit(3)
    /\ Outcome = SysExit(0) =>
          /\ LastStep = "VF"
          /\ HasTables(out)
          /\ ReportedGlyphs(out) >= args.min_glyphs
          /\ args.min_glyphs >= 0 => out.maxp /\ out.numGlyphs >= args.min_glyphs
    /\ Outcome = SysExit(3) => LastStep = "VF" /\ ~Acceptable(out)

C1_Witness ==
    /\ pc = "done"
    /\ status = SysExit(3)
    /\ fs["out_path"] = Unparsable
    /\ Last(checks).result =
          [ok |-> FALSE, has_glyf |-> FALSE, has_loca |-> FALSE, num_glyphs |-> -1]

(* C2: for an .otf input the intermediate TTF is verified right after      *)
(* Stage B; an intermediate without glyf or loca, unparsable, or with      *)
(* numGlyphs < --min-glyphs ends the run with status 2 before Stage C and  *)
(* before any write to out_path; otherwise Stage C follows, and the same   *)
(* failure of the final output gives status 3.                             *)
C2_IntermediateFailureExits2 ==
    LET mid == fs["ttf_intermediate"] IN
    /\ (LastStep = "B" /\ Outcome = Running) => pc = "checkI"
    /\ (LastStep = "VI" /\ pc /= "done") =>
          IF Acceptable(mid)
          THEN pc = "stageC" /\ Outcome = Running
          ELSE pc = "finally" /\ Outcome = SysExit(2)
    /\ (LastStep = "VI" /\ pc = "done") => status = SysExit(2)
    /\ Outcome = SysExit(2) =>
          /\ IsOtfInput
          /\ LastStep = "VI"
          /\ out_writes = 0
          /\ Len(subset_calls) = 1
    /\ (IsOtfInput /\ LastStep = "VF") =>
          /\ Len(trace) = 5
          /\ trace[3] = "VI"
          /\ Outcome = IF Acceptable(fs["out_path"]) THEN SysExit(0) ELSE SysExit(3)

C2_Witness ==
    /\ pc = "finally"
    /\ pending = SysExit(2)
    /\ HasTables(fs["ttf_intermediate"])
    /\ ReportedGlyphs(fs["ttf_intermediate"]) < args.min_glyphs

(* C3 as stated: every subsetting call gets --text-file if that option was *)
(* given, else --unicodes if given, else the preset's range string, else   *)
(* the range string of sc-min.                                             *)
CriterionIfGiven ==
    IF args.text_file /= None THEN <<"--text-file=", args.text_file>>
    ELSE IF args.unicodes /= None THEN <<"--unicodes=", args.unicodes>>
    ELSE IF args.preset /= None THEN <<"--unicodes=", PRESETS[args.preset]>>
    ELSE <<"--unicodes=", PRESETS["sc-min"]>>

C3_Original ==
    \A i \in DOMAIN subset_calls :
        <<subset_calls[i].opt, subset_calls[i].val>> = CriterionIfGiven

(* C3 as amended: the same precedence, where an option counts as given     *)
(* only if its value is a non-empty string.  Every call of a run gets this *)
(* one criterion, so Stage A and Stage C agree.                            *)
NonEmpty(s) == s /= None /\ s /= ""

CriterionIfNonEmpty ==
    IF NonEmpty(args.text_file) THEN <<"--text-file=", args.text_file>>
    ELSE IF NonEmpty(args.unicodes) THEN <<"--unicodes=", args.unicodes>>
    ELSE IF args.preset /= None THEN <<"--unicodes=", PRESETS[args.preset]>>
    ELSE <<"--unicodes=", PRESETS["sc-min"]>>

C3_SameCriterionEveryCall ==
    \A i \in DOMAIN subset_calls :
        <<subset_calls[i].opt, subset_calls[i].val>> = CriterionIfNonEmpty

C3_Witness ==
    /\ Len(subset_calls) = 2
    /\ subset_calls[2].font = "ttf_intermediate"
    /\ NonEmpty(args.text_file)
    /\ NonEmpty(args.unicodes)
    /\ args.preset /= None

(* C4: when --in is not an existing regular file the run prints an error   *)
(* to standard error and exits with status 1, having created neither the   *)
(* output directory nor the temporary directory and having run no          *)
(* subsetting, conversion or verification step.                            *)
C4_MissingInputExits1 ==
    in_kind /= "file" =>
        /\ pc \in {"start", "done"}
        /\ pc = "done" => status = SysExit(1) /\ stderr = <<"input not found">>
        /\ ~outdir_created
        /\ ~tmp_created
        /\ ~tmp_exists
        /\ NoExternalWork
        /\ checks = <<>>
        /\ trace = <<>>
        /\ out_writes = 0
        /\ \A p \in TmpPaths : fs[p] = Absent

C4_Witness ==
    /\ in_kind = "dir"
    /\ pc = "done"
    /\ status = SysExit(1)

(* C5: for an input whose extension is not .otf, with none of --preset,    *)
(* --unicodes, --text-file given, from the first pipeline step on out_path *)
(* holds a byte-identical copy of the input and neither the subsetter nor  *)
(* FontForge was invoked, whatever the final verification says and         *)
(* whatever --no-second-subset is.                                         *)
C5_PlainTtfIsCopied ==
    ( /\ ~IsOtfInput
      /\ args.preset = None
      /\ args.unicodes = None
      /\ args.text_file = None
      /\ trace /= <<>> ) =>
        /\ fs["out_path"] = fs["in_path"]
        /\ fs["out_path"].exists
        /\ out_writes = 1
        /\ NoExternalWork

C5_Witness ==
    /\ ~IsOtfInput
    /\ args.preset = None
    /\ args.unicodes = None
    /\ args.text_file = None
    /\ args.no_second_subset
    /\ pc = "done"
    /\ status = SysExit(3)
    /\ fs["out_path"] = fs["in_path"]
    /\ fs["in_path"] /= StaleOut

(* C6: for an .otf input run with --no-second-subset whose intermediate    *)
(* check passed, Stage C makes no subsetting call and out_path is a copy   *)
(* of the intermediate TTF, so the final verification reads the same       *)
(* tables and glyph count as the intermediate one; without the flag the    *)
(* subsetter is invoked exactly once on the intermediate TTF.              *)
C6_SkipFlagCopiesIntermediate ==
    IsOtfInput =>
        /\ LastStep = "C-copy" => args.no_second_subset
        /\ LastStep = "C-subset" => ~args.no_second_subset
        /\ (args.no_second_subset /\ LastStep \in {"C-copy", "VF"}) =>
              /\ Len(subset_calls) = 1
              /\ subset_calls[1].font = "in_path"
              /\ out_writes = 1
              /\ pc /= "done" => fs["out_path"] = fs["ttf_intermediate"]
              /\ LastStep = "VF" =>
                    /\ checks[1].path = "ttf_intermediate"
                    /\ checks[2].path = "out_path"
                    /\ checks[2].result = checks[1].result
                    /\ ReportedGlyphs(fs["out_path"]) = checks[1].result.num_glyphs
                    /\ Outcome = SysExit(0)
        /\ (~args.no_second_subset /\ LastStep \in {"C-subset", "VF"}) =>
              /\ Cardinality({i \in DOMAIN subset_calls :
                     subset_calls[i].font = "ttf_intermediate"}) = 1
              /\ subset_calls[2].font = "ttf_intermediate"
              /\ subset_calls[2].output_file = "out_path"

C6_Witness ==
    /\ IsOtfInput
    /\ args.no_second_subset
    /\ pc = "done"
    /\ status = SysExit(0)
    /\ Len(checks) = 2
    /\ checks[2].result.num_glyphs = MaxGlyphs

(* C7: in every terminal state of a run that created the temporary         *)
(* directory (exit 0, 2, 3 or an uncaught exception) the directory and its *)
(* files are gone; the one terminal state reached without the directory    *)
(* ever having been created is exit 1.                                     *)
C7_TmpdirRemoved ==
    pc = "done" =>
        /\ status.kind \in {"exit", "exception"}
        /\ tmp_created => ~tmp_exists /\ \A p \in TmpPaths : fs[p] = Absent
        /\ ~tmp_created <=> status = SysExit(1)
        /\ status.kind = "exit" => status.code \in 0..3

C7_Witness ==
    /\ pc = "done"
    /\ status = Raised("CalledProcessError")
    /\ tmp_created
    /\ ~tmp_exists

(* C8: when shutil.which finds no fontforge, the conversion raises         *)
(* RuntimeError with no subprocess launched, and the run ends by that      *)
(* uncaught exception with no verification done and out_path unwritten; a  *)
(* launched conversion that exits non-zero raises CalledProcessError, a    *)
(* different error with the same ending.                                   *)
C8_MissingEngineRaises ==
    /\ ff = None =>
          /\ which_calls = 1
          /\ ff_launches = 0
          /\ returncode = -1
          /\ pc \in {"finally", "done"}
          /\ Outcome = Raised("RuntimeError")
          /\ LastStep = "B"
          /\ checks = <<>>
          /\ out_writes = 0
    /\ returncode = 1 =>
          /\ ff \notin {None, "unset"}
          /\ ff_launches = 1
          /\ pc \in {"finally", "done"}
          /\ Outcome = Raised("CalledProcessError")
          /\ LastStep = "B"
          /\ checks = <<>>
          /\ out_writes = 0
    /\ Outcome.exc \in {"RuntimeError", "CalledProcessError"} =>
          Outcome.kind = "exception" /\ Outcome \notin {SysExit(n) : n \in 0..3}

C8_Witness ==
    /\ pc = "done"
    /\ ff = None
    /\ status = Raised("RuntimeError")
    /\ fs["out_path"] = StaleOut

(* C9: the steps of a run are a prefix of one fixed order chosen by the    *)
(* lower-cased input extension: A, B, intermediate verification, Stage C   *)
(* (subset or copy), final verification for .otf; direct subset or direct  *)
(* copy, then final verification otherwise.  A non-.otf run never looks    *)
(* up or launches FontForge, never verifies an intermediate file and never *)
(* ends with status 2.                                                     *)
IsPrefix(s, t) == Len(s) <= Len(t) /\ SubSeq(t, 1, Len(s)) = s

OtfOrders == {<<"A", "B", "VI", c, "VF">> : c \in {"C-subset", "C-copy"}}

TtfOrders == {<<t, "VF">> : t \in {"T-subset", "T-copy"}}

C9_ForwardOnlyPipeline ==
    /\ \E o \in (IF IsOtfInput THEN OtfOrders ELSE TtfOrders) : IsPrefix(trace, o)
    /\ ~IsOtfInput =>
          /\ which_calls = 0
          /\ ff_launches = 0
          /\ \A i \in DOMAIN checks : checks[i].path = "out_path"
          /\ \A i \in DOMAIN subset_calls : subset_calls[i].font = "in_path"
          /\ Len(subset_calls) <= 1
          /\ Outcome /= SysExit(2)
    /\ pc = "done" => (trace = <<>> <=> status = SysExit(1))

C9_Witness ==
    /\ pc = "done"
    /\ args.in_ext = ".OTF"
    /\ trace = <<"A", "B", "VI", "C-subset", "VF">>

(* C10: a run that ends with status 1 or 2 has never written out_path; a   *)
(* run that ends with status 0 or 3 has written it; on status 3 the file   *)
(* that failed the verification is still at out_path.                      *)
C10_StatusTellsOutputWritten ==
    (pc = "done" /\ status.kind = "exit") =>
        /\ status.code \in {1, 2} =>
              out_writes = 0 /\ fs["out_path"] \in {Absent, StaleOut}
        /\ status.code \in {0, 3} => out_writes = 1 /\ fs["out_path"].exists
        /\ status.code = 3 =>
              /\ fs["out_path"].exists
              /\ ~Acceptable(fs["out_path"])
              /\ Last(checks).path = "out_path"
              /\ Last(checks).result.num_glyphs = ReportedGlyphs(fs["out_path"])

C10_Witness ==
    /\ pc = "done"
    /\ status = SysExit(3)
    /\ HasTables(fs["out_path"])
    /\ out_writes = 1

====
